---------------------------- MODULE Spec2Model ----------------------------
(* Shared-file-system cloud mixin of openstacksdk                           *)
(* (openstack/cloud/_shared_file_system.py): the cached, paginated          *)
(* list_shares, the name-or-id lookup get_share, and create_share,          *)
(* update_share and delete_share with their wait loops, run by one caller   *)
(* against a share service whose state changes between requests.            *)
EXTENDS Integers, Sequences, FiniteSets, TLC

(* ------------------------------ bounds --------------------------------- *)
\* Number of share ids the service can hold.
MaxShares == 2
\* Largest finite timeout, in sleeps of iterate_timeout.
MaxTimeout == 2
\* Largest number of shares the service puts on one page of a listing.
MaxPage == 2
\* Largest size of a share, in GB.
MaxSize == 2
\* Largest wait budget of the proxy's wait_for_status and wait_for_delete,
\* and largest interval between two of their checks, in seconds.
MaxWait == 2
MaxInterval == 2

(* --------------------------- program constants ------------------------- *)
\* attempts = 5 in list_shares.
attempts == 5
\* timeout=None of create_share and delete_share ("None is forever").
NoTimeout == -1

ShareIds == 1..MaxShares
\* A key that names no share (a name or id the service never issued).
UnknownKey == 0
Keys == ShareIds \cup {UnknownKey}
Timeouts == {NoTimeout} \cup (0..MaxTimeout)

\* The statuses a share on the service goes through.
Statuses == {"creating", "available", "error", "deleting"}
Absent == "absent"

\* get_share's None.
NoShare == [id |-> 0, status |-> "none"]

\* An empty cache region for list_shares.
NoValue == [hit |-> FALSE, value |-> <<>>]

VARIABLES
    server,   \* share id -> its status on the service, or Absent
    cache,    \* the list_shares entry of the cache region
    pc,       \* where the caller is in its current operation
    op,       \* the operation and its arguments
    loc,      \* the operation's locals: share, elapsed
    lpc,      \* where the list_shares call in progress is
    lst,      \* list_shares' locals: attempt, shares, endpoint, ret, err
    out,      \* how the operation ended: returned value or raised error
    gh,       \* history of the current operation (requests sent, polls)
    other,    \* the list_shares call of a second caller sharing the cache
    sizes     \* share id -> its size on the service and the accepted
              \* size action the back end has not carried out yet

vars == <<server, cache, pc, op, loc, lpc, lst, out, gh, other, sizes>>

(* ------------------------------ helpers -------------------------------- *)
\* The share records of the service, in id order (the order of a listing).
RECURSIVE ListingFrom(_, _)
ListingFrom(srv, i) ==
    IF i > MaxShares THEN <<>>
    ELSE IF srv[i] = Absent THEN ListingFrom(srv, i + 1)
    ELSE <<[id |-> i, status |-> srv[i]]>> \o ListingFrom(srv, i + 1)

Min(a, b) == IF a < b THEN a ELSE b

\* One page of the detail listing resumed after marker, n shares long, and
\* the href of the next page (the id it resumes after, 0: there is none).
PageAfter(srv, marker, n) ==
    LET rest == ListingFrom(srv, marker + 1)
        page == SubSeq(rest, 1, n)
    IN  [shares |-> page,
         next   |-> IF Len(rest) > n THEN page[n].id ELSE 0]

\* The lengths the service may give that page: it cuts a listing into pages
\* of at most MaxPage shares.
PageLengths(srv, marker) ==
    LET left == Len(ListingFrom(srv, marker + 1))
    IN  IF left = 0 THEN {0} ELSE 1..Min(MaxPage, left)

\* The bodies the service can answer a page request with: a page followed by
\* another carries shares_links with a rel=next entry; the last page either
\* has no shares_links key or has one without a rel=next entry.
PageBodies(srv, marker) ==
    UNION {LET p == PageAfter(srv, marker, n)
           IN  IF p.next # 0
               THEN {[shares |-> p.shares, links |-> "next", href |-> p.next]}
               ELSE {[shares |-> p.shares, links |-> l, href |-> 0] :
                         l \in {"absent", "nonext"}}
           : n \in PageLengths(srv, marker)}

\* _normalize_share: the normalized mapping of one share record.
_normalize_share(s) == [id |-> s.id, status |-> s.status]

\* _normalize_shares(_get_and_munchify(key=None, data=shares)).
_normalize_shares(shares) ==
    [i \in 1..Len(shares) |-> _normalize_share(shares[i])]

\* A should_cache_fn that only looks for shares being created.
_no_pending_shares_creating(shares) ==
    \A i \in 1..Len(shares) : shares[i].status # "creating"

\* should_cache_fn of list_shares: no share outside a steady state.
_no_pending_shares(shares) ==
    \A i \in 1..Len(shares) : shares[i].status \in {"available", "error"}

\* cache_on_arguments(should_cache_fn=...): the entry after list_shares
\* computed value while the entry was entry.
CachePut(entry, value) ==
    IF _no_pending_shares(value) THEN [hit |-> TRUE, value |-> value]
    ELSE entry

\* A _list that keeps the items of the page it was called on only.
_list_assign(acc, data) ==
    [shares   |-> data.shares,
     endpoint |-> IF data.links = "next" THEN data.href ELSE 0]

\* _list(data): shares.extend(data.get('shares', [])), then the href of the
\* first rel=next entry of data.get('shares_links', []), 0 when there is none.
_list(acc, data) ==
    [shares   |-> acc \o data.shares,
     endpoint |-> IF data.links = "next" THEN data.href ELSE 0]

\* search_shares + _get_entity: the share of a listing that key names.
get_share(listing, key) ==
    LET m == {i \in 1..Len(listing) : listing[i].id = key}
    IN  IF Cardinality(m) = 1 THEN listing[CHOOSE i \in m : TRUE] ELSE NoShare

\* iterate_timeout: whether the generator yields once more.
iterate_timeout(timeout, elapsed) ==
    timeout = NoTimeout \/ elapsed < timeout

(* ------------------------------ initial state -------------------------- *)
NoOp == [name |-> "none", key |-> UnknownKey, wait |-> FALSE,
         timeout |-> NoTimeout, force |-> FALSE]
NoLoc == [share |-> NoShare, share_id |-> 0, elapsed |-> 0]
NoLst == [attempt |-> 0, shares |-> <<>>, endpoint |-> 0, ret |-> <<>>,
          err |-> "none"]
NoOut == [kind |-> "none", exc |-> "none", share |-> NoShare,
          flag |-> "none", list |-> <<>>]
NoBody == [shares |-> <<>>, links |-> "none", href |-> 0]
NoGh == [inv1 |-> FALSE, inv2 |-> FALSE, req |-> "none", nDelete |-> 0,
         nAction |-> 0, resp |-> "none", cacheOld |-> FALSE,
         looped |-> FALSE, polled |-> FALSE, lastPoll |-> "none",
         postStatus |-> "none", resolved |-> "none", lfetched |-> FALSE, lfirst |-> NoBody,
         areqs |-> 0, lexhausted |-> FALSE, litems |-> <<>>, lnotfound |-> 0,
         lraisedBy |-> "none", lfirsts |-> 0]

\* The second caller before it calls list_shares.
NoOther == [lpc |-> "off", attempt |-> 0, shares |-> <<>>, endpoint |-> 0,
            before |-> FALSE, late |-> FALSE]

\* No size action is waiting on the back end.
NoAction == [key |-> "none", new_size |-> 0]
NoSizes == [i \in ShareIds |-> [size |-> 1, action |-> NoAction]]

Init ==
    /\ server \in [ShareIds -> {Absent, "available", "creating"}]
    /\ cache = NoValue
    /\ pc = "idle"
    /\ op = NoOp
    /\ loc = NoLoc
    /\ lpc = "off"
    /\ lst = NoLst
    /\ out = NoOut
    /\ gh = NoGh
    /\ other = NoOther
    /\ sizes = NoSizes

(* ------------------------------ the service ---------------------------- *)
\* The back end and other clients change a share between two requests:
\* a share being created becomes available or fails, another client deletes
\* a share, a share being deleted disappears.
ServerStep ==
    /\ \E i \in ShareIds :
          \/ /\ server[i] = "creating"
             /\ \E s \in {"available", "error"} :
                    server' = [server EXCEPT ![i] = s]
          \/ /\ server[i] \in {"available", "error"}
             /\ server' = [server EXCEPT ![i] = "deleting"]
          \/ /\ server[i] = "deleting"
             /\ server' = [server EXCEPT ![i] = Absent]
    /\ UNCHANGED <<other, sizes, cache, pc, op, loc, lpc, lst, out, gh>>

\* The cache region is time-bounded: an entry expires.
CacheExpire ==
    /\ cache.hit
    /\ cache' = NoValue
    /\ gh' = [gh EXCEPT !.cacheOld = FALSE]
    /\ UNCHANGED <<other, sizes, server, pc, op, loc, lpc, lst, out>>

(* ------------------------------ list_shares ---------------------------- *)
\* The decorator's lookup: a cached entry is returned without a request,
\* otherwise the body of list_shares runs.
ListCacheLookup ==
    /\ lpc = "call"
    /\ IF cache.hit
       THEN /\ lst' = [NoLst EXCEPT !.ret = cache.value]
            /\ lpc' = "ret"
            /\ gh' = [gh EXCEPT !.lfetched = FALSE, !.lfirst = NoBody,
                                !.areqs = 0, !.lexhausted = FALSE,
                                !.litems = <<>>, !.lnotfound = 0,
                                !.lraisedBy = "none", !.lfirsts = 0]
       ELSE /\ lst' = [NoLst EXCEPT !.attempt = 1]
            /\ lpc' = "first"
            /\ gh' = [gh EXCEPT !.lfetched = TRUE, !.lfirst = NoBody,
                                !.areqs = 0, !.lexhausted = FALSE,
                                !.litems = <<>>, !.lnotfound = 0,
                                !.lraisedBy = "none", !.lfirsts = 0]
    /\ UNCHANGED <<other, sizes, server, cache, pc, op, loc, out>>

\* A loop that takes the items of the page and then calls _list on it too.
AfterPage_twice(acc, data) ==
    IF data.links = "absent"
    THEN [shares |-> acc \o data.shares, endpoint |-> 0]
    ELSE _list(acc \o data.shares, data)

\* What the loop does with the body of a page: without shares_links the
\* items are taken and the loop ends; otherwise _list takes them and either
\* ends the loop or follows the next link.
AfterPage(acc, data) ==
    IF data.links = "absent"
    THEN [shares |-> acc \o data.shares, endpoint |-> 0]
    ELSE _list(acc, data)

\* An attempt that goes on adding to what the attempts before it found.
AttemptShares_kept(found) == found

\* shares = [] at the head of each attempt, whatever was found before.
AttemptShares(found) == <<>>

\* One iteration of "for _ in range(attempts)": shares = [] and the request
\* for the first page. An error of this request is not caught.
ListFirstPage ==
    /\ lpc = "first"
    /\ \/ \E data \in PageBodies(server, 0) :
            LET r == AfterPage(AttemptShares(lst.shares), data)
            IN  /\ lst' = [lst EXCEPT !.shares = r.shares,
                                      !.endpoint = r.endpoint]
                /\ lpc' = IF r.endpoint = 0 THEN "store" ELSE "next"
                /\ gh' = [gh EXCEPT !.lfirst = data, !.areqs = 1,
                                    !.litems = data.shares,
                                    !.lfirsts = @ + 1]
       \/ \E e \in {"OpenStackCloudURINotFound", "OpenStackCloudHTTPError"} :
            /\ lst' = [lst EXCEPT !.shares = <<>>, !.err = e]
            /\ lpc' = "raise"
            /\ gh' = [gh EXCEPT !.lfirst = NoBody, !.areqs = 1,
                                !.litems = <<>>, !.lraisedBy = "first",
                                !.lfirsts = @ + 1]
    /\ UNCHANGED <<other, sizes, server, cache, pc, op, loc, out>>

\* A loop whose last attempt lets the not-found go on to the caller.
NextLinkFailed_reraise(e, attempt) ==
    IF e # "OpenStackCloudURINotFound" THEN "raise"
    ELSE IF attempt < attempts THEN "retry"
    ELSE "raise"

\* A loop that goes round once more than attempts.
NextLinkFailed_more(e, attempt) ==
    IF e # "OpenStackCloudURINotFound" THEN "raise"
    ELSE IF attempt <= attempts THEN "retry"
    ELSE "return"

\* A loop that passes over every error of a next link.
NextLinkFailed_any(e, attempt) ==
    IF attempt < attempts THEN "retry" ELSE "return"

\* What the loop does when the request for a next link fails with e in
\* attempt number attempt: only OpenStackCloudURINotFound is caught, and
\* the loop goes to its next iteration, or after the last one to its else
\* clause and the return.
NextLinkFailed(e, attempt) ==
    IF e # "OpenStackCloudURINotFound" THEN "raise"
    ELSE IF attempt < attempts THEN "retry"
    ELSE "return"

\* _list following a next link. Not-found is re-raised to the loop, which
\* starts the next attempt, or after the last attempt falls through to the
\* return with what this attempt found; any other error is not caught.
ListNextPage ==
    /\ lpc = "next"
    /\ \/ \E data \in PageBodies(server, lst.endpoint) :
            LET r == _list(lst.shares, data)
            IN  /\ lst' = [lst EXCEPT !.shares = r.shares,
                                      !.endpoint = r.endpoint]
                /\ lpc' = IF r.endpoint = 0 THEN "store" ELSE "next"
                /\ gh' = [gh EXCEPT !.areqs = @ + 1,
                                    !.litems = @ \o data.shares]
       \/ \E e \in {"OpenStackCloudURINotFound", "OpenStackCloudHTTPError"} :
            LET o == NextLinkFailed(e, lst.attempt)
                n == IF e = "OpenStackCloudURINotFound" THEN 1 ELSE 0
            IN  /\ lst' = IF o = "retry"
                             THEN [lst EXCEPT !.attempt = @ + 1, !.endpoint = 0]
                          ELSE IF o = "return"
                             THEN [lst EXCEPT !.endpoint = 0]
                          ELSE [lst EXCEPT !.err = e]
                /\ lpc' = IF o = "retry" THEN "first"
                          ELSE IF o = "return" THEN "store"
                          ELSE "raise"
                /\ gh' = [gh EXCEPT !.areqs = @ + 1,
                                    !.lexhausted = (o = "return"),
                                    !.lnotfound = @ + n,
                                    !.lraisedBy =
                                        IF o = "raise" THEN "next" ELSE @]
    /\ UNCHANGED <<other, sizes, server, cache, pc, op, loc, out>>

\* The return of list_shares: the normalized shares, which the decorator
\* stores when should_cache_fn accepts them.
ListStore ==
    /\ lpc = "store"
    /\ LET value == _normalize_shares(lst.shares)
       IN  /\ lst' = [lst EXCEPT !.ret = value]
           /\ cache' = CachePut(cache, value)
           /\ gh' = [gh EXCEPT !.cacheOld =
                        IF _no_pending_shares(value) THEN FALSE ELSE @]
    /\ lpc' = "ret"
    /\ UNCHANGED <<other, sizes, server, pc, op, loc, out>>

\* An error raised inside list_shares reaches the caller of the operation:
\* no operation catches an error of a lookup.
ListRaise ==
    /\ lpc = "raise"
    /\ lpc' = "off"
    /\ pc' = "done"
    /\ out' = [NoOut EXCEPT !.kind = "raise", !.exc = lst.err]
    /\ lst' = NoLst
    /\ gh' = [gh EXCEPT !.lfetched = FALSE, !.lfirst = NoBody, !.areqs = 0,
                        !.lexhausted = FALSE, !.litems = <<>>,
                        !.lnotfound = 0, !.lraisedBy = "none",
                        !.lfirsts = 0]
    /\ UNCHANGED <<other, sizes, server, cache, op, loc>>

(* ------------------------- operations: entry --------------------------- *)
\* The history with the part about the list_shares call that just ended
\* dropped: its locals are gone once the caller has taken its result.
ListDone(g) ==
    [g EXCEPT !.lfetched = FALSE, !.lfirst = NoBody, !.areqs = 0,
              !.lexhausted = FALSE, !.litems = <<>>, !.lnotfound = 0,
              !.lraisedBy = "none", !.lfirsts = 0]

\* self.list_shares.invalidate(self)
Invalidate == NoValue

\* The sleep of iterate_timeout between two yields (elapsed is not needed,
\* and not counted, when there is no timeout).
Sleep(timeout, elapsed) ==
    IF timeout = NoTimeout THEN elapsed ELSE elapsed + 1

\* The caller calls list_shares().
CallListShares ==
    /\ pc = "idle"
    /\ op' = [NoOp EXCEPT !.name = "list_shares"]
    /\ pc' = "list_call"
    /\ lpc' = "call"
    /\ gh' = NoGh
    /\ UNCHANGED <<other, sizes, server, cache, loc, lst, out>>

\* list_shares() returns to the caller.
ListSharesReturn ==
    /\ pc = "list_call"
    /\ lpc = "ret"
    /\ out' = [NoOut EXCEPT !.kind = "return", !.list = lst.ret]
    /\ pc' = "done"
    /\ lpc' = "off"
    /\ lst' = NoLst
    /\ gh' = ListDone(gh)
    /\ UNCHANGED <<other, sizes, server, cache, op, loc>>

\* The caller calls get_share(name_or_id).
CallGetShare ==
    /\ pc = "idle"
    /\ \E k \in Keys : op' = [NoOp EXCEPT !.name = "get_share", !.key = k]
    /\ pc' = "get_call"
    /\ lpc' = "call"
    /\ gh' = NoGh
    /\ UNCHANGED <<other, sizes, server, cache, loc, lst, out>>

\* get_share returns the share search_shares found, or None.
GetShareReturn ==
    /\ pc = "get_call"
    /\ lpc = "ret"
    /\ out' = [NoOut EXCEPT !.kind = "return",
                            !.share = get_share(lst.ret, op.key)]
    /\ pc' = "done"
    /\ lpc' = "off"
    /\ lst' = NoLst
    /\ gh' = ListDone(gh)
    /\ UNCHANGED <<other, sizes, server, cache, op, loc>>

\* The caller takes the result of an operation; the next one can start.
Finish ==
    /\ pc = "done"
    /\ pc' = "idle"
    /\ op' = NoOp
    /\ loc' = NoLoc
    /\ lst' = NoLst
    /\ out' = NoOut
    /\ gh' = NoGh
    /\ UNCHANGED <<other, sizes, server, cache, lpc>>

(* ------------------------------ create_share -------------------------- *)
\* The caller calls create_share(share_proto, size, wait, timeout).
CallCreateShare ==
    /\ pc = "idle"
    /\ \E w \in BOOLEAN, t \in Timeouts :
          op' = [NoOp EXCEPT !.name = "create_share", !.wait = w,
                             !.timeout = t]
    /\ pc' = "create_post"
    /\ gh' = NoGh
    /\ UNCHANGED <<other, sizes, server, cache, loc, lpc, lst, out>>

\* if share['status'] == 'error': raise
CreateFailed(share) == share.status = "error"

\* create_share without the check of the status of the POST response.
CreateAfterPost_unchecked(share, wait) ==
    IF wait THEN "wait" ELSE "return"

\* What create_share does once the POST is answered and the cache is
\* invalidated: raise, enter the wait loop, or return the share.
CreateAfterPost(share, wait) ==
    IF CreateFailed(share) THEN "raise"
    ELSE IF wait THEN "wait"
    ELSE "return"

\* A create_share that leaves the cache as it is.
CreateCache_kept(entry) == entry

\* The cache entry after the POST was answered:
\* self.list_shares.invalidate(self).
CreateCache(entry) == Invalidate

\* POST /shares, then normalize, invalidate, and the check of the status.
\* The service gives the share a free id and answers with its first status;
\* a POST that fails raises from the session.
CreatePost ==
    /\ pc = "create_post"
    /\ \/ \E i \in ShareIds, s \in {"creating", "available", "error"} :
            /\ server[i] = Absent
            /\ server' = [server EXCEPT ![i] = s]
            /\ cache' = CreateCache(cache)
            /\ LET share == _normalize_share([id |-> i, status |-> s])
                   next == CreateAfterPost(share, op.wait)
               IN  /\ loc' = [loc EXCEPT !.share = share, !.share_id = i]
                   /\ gh' = [gh EXCEPT !.req = "post", !.resp = "ok",
                                       !.postStatus = s, !.inv2 = TRUE,
                                       !.cacheOld = cache'.hit]
                   /\ pc' = IF next = "wait" THEN "create_iter" ELSE "done"
                   /\ out' = CASE next = "raise" ->
                                    [NoOut EXCEPT !.kind = "raise",
                                         !.exc = "OpenStackCloudException"]
                               [] next = "return" ->
                                    [NoOut EXCEPT !.kind = "return",
                                         !.share = _normalize_share(share)]
                               [] OTHER -> out
       \/ /\ pc' = "done"
          /\ out' = [NoOut EXCEPT !.kind = "raise",
                                  !.exc = "OpenStackCloudHTTPError"]
          /\ gh' = [gh EXCEPT !.req = "post", !.resp = "error",
                              !.cacheOld = cache.hit]
          /\ UNCHANGED <<other, sizes, server, cache, loc>>
    /\ UNCHANGED <<other, sizes, op, lpc, lst>>

\* for count in utils.iterate_timeout(timeout, ...): the next yield, followed
\* by share = self.get_share(share_id), or the timeout.
CreateIter ==
    /\ pc = "create_iter"
    /\ IF iterate_timeout(op.timeout, loc.elapsed)
       THEN /\ pc' = "create_poll"
            /\ lpc' = "call"
            /\ gh' = [gh EXCEPT !.looped = TRUE, !.polled = TRUE]
            /\ out' = out
       ELSE /\ pc' = "done"
            /\ lpc' = lpc
            /\ gh' = [gh EXCEPT !.looped = TRUE]
            /\ out' = [NoOut EXCEPT !.kind = "raise",
                                    !.exc = "OpenStackCloudTimeout"]
    /\ UNCHANGED <<other, sizes, server, cache, op, loc, lst>>

\* A wait loop that returns any polled share that has not failed.
CreatePolled_noterror(share) ==
    IF share = NoShare THEN "continue"
    ELSE IF share.status = "error" THEN "raise"
    ELSE "return"

\* A wait loop that waits for the status 'active'.
CreatePolled_active(share) ==
    IF share = NoShare THEN "continue"
    ELSE IF share.status = "active" THEN "return"
    ELSE IF share.status = "error" THEN "raise"
    ELSE "continue"

\* A wait loop that gives up when get_share finds no share.
CreatePolled_missing(share) ==
    IF share = NoShare THEN "raise"
    ELSE IF share.status = "available" THEN "return"
    ELSE IF share.status = "error" THEN "raise"
    ELSE "continue"

\* The body of the wait loop after get_share: what the polled share leads to.
CreatePolled(share) ==
    IF share = NoShare THEN "continue"
    ELSE IF share.status = "available" THEN "return"
    ELSE IF share.status = "error" THEN "raise"
    ELSE "continue"

\* The polled share is examined; the loop goes on after a sleep.
CreatePoll ==
    /\ pc = "create_poll"
    /\ lpc = "ret"
    /\ LET share == get_share(lst.ret, loc.share_id)
           next == CreatePolled(share)
       IN  /\ loc' = [loc EXCEPT !.share = share,
                         !.elapsed = IF next = "continue"
                                     THEN Sleep(op.timeout, @) ELSE @]
           /\ gh' = [ListDone(gh) EXCEPT !.lastPoll =
                        IF share = NoShare THEN "nothing" ELSE share.status]
           /\ pc' = IF next = "continue" THEN "create_iter" ELSE "done"
           /\ out' = CASE next = "return" ->
                            [NoOut EXCEPT !.kind = "return", !.share = share]
                       [] next = "raise" ->
                            [NoOut EXCEPT !.kind = "raise",
                                 !.exc = "OpenStackCloudException"]
                       [] OTHER -> out
    /\ lpc' = "off"
    /\ lst' = NoLst
    /\ UNCHANGED <<other, sizes, server, cache, op>>

(* ------------------------------ update_share -------------------------- *)
\* The caller calls update_share(name_or_id, ...): share = get_share(...).
CallUpdateShare ==
    /\ pc = "idle"
    /\ \E k \in Keys : op' = [NoOp EXCEPT !.name = "update_share", !.key = k]
    /\ pc' = "update_lookup"
    /\ lpc' = "call"
    /\ gh' = NoGh
    /\ UNCHANGED <<other, sizes, server, cache, loc, lst, out>>

\* if not share: raise OpenStackCloudException("Share %s not found.")
UpdateLookup ==
    /\ pc = "update_lookup"
    /\ lpc = "ret"
    /\ LET share == get_share(lst.ret, op.key)
       IN  /\ loc' = [loc EXCEPT !.share = share, !.share_id = share.id]
           /\ IF share = NoShare
              THEN /\ pc' = "done"
                   /\ out' = [NoOut EXCEPT !.kind = "raise",
                                   !.exc = "OpenStackCloudException"]
              ELSE /\ pc' = "update_put"
                   /\ out' = out
           /\ gh' = [ListDone(gh) EXCEPT !.resolved =
                        IF share = NoShare THEN "no" ELSE "yes"]
    /\ lpc' = "off"
    /\ lst' = NoLst
    /\ UNCHANGED <<other, sizes, server, cache, op>>

\* The cache entry when update_share returns: the PUT is followed by no
\* invalidation.
UpdateCache(entry) == entry

\* PUT /shares/{id} and the return of the share of the response; a share
\* that is gone, or any other failure, raises from the session.
UpdatePut ==
    /\ pc = "update_put"
    /\ \/ /\ server[loc.share_id] # Absent
          /\ out' = [NoOut EXCEPT !.kind = "return",
                        !.share = [id |-> loc.share_id,
                                   status |-> server[loc.share_id]]]
          /\ cache' = UpdateCache(cache)
          /\ gh' = [gh EXCEPT !.req = "put", !.resp = "ok",
                              !.cacheOld = cache'.hit]
       \/ /\ out' = [NoOut EXCEPT !.kind = "raise",
                        !.exc = IF server[loc.share_id] = Absent
                                THEN "OpenStackCloudURINotFound"
                                ELSE "OpenStackCloudHTTPError"]
          /\ cache' = cache
          /\ gh' = [gh EXCEPT !.req = "put", !.resp = "error",
                              !.cacheOld = cache.hit]
    /\ pc' = "done"
    /\ UNCHANGED <<other, sizes, server, op, loc, lpc, lst>>

(* ------------------------------ delete_share -------------------------- *)
\* The caller calls delete_share(name_or_id, wait, timeout, force):
\* self.list_shares.invalidate(self), then share = self.get_share(name_or_id).
CallDeleteShare ==
    /\ pc = "idle"
    /\ \E k \in Keys, w \in BOOLEAN, t \in Timeouts, f \in BOOLEAN :
          op' = [NoOp EXCEPT !.name = "delete_share", !.key = k, !.wait = w,
                             !.timeout = t, !.force = f]
    /\ cache' = Invalidate
    /\ gh' = [NoGh EXCEPT !.inv1 = TRUE]
    /\ pc' = "delete_lookup"
    /\ lpc' = "call"
    /\ UNCHANGED <<other, sizes, server, loc, lst, out>>

\* A delete_share that raises for a share it cannot find, as update_share
\* does.
DeleteIfMissing_raise == "raise"

\* if not share: log and return False
DeleteIfMissing == "false"

DeleteLookup ==
    /\ pc = "delete_lookup"
    /\ lpc = "ret"
    /\ LET share == get_share(lst.ret, op.key)
       IN  /\ loc' = [loc EXCEPT !.share = share, !.share_id = share.id]
           /\ gh' = [ListDone(gh) EXCEPT !.resolved =
                        IF share = NoShare THEN "no" ELSE "yes"]
           /\ IF share = NoShare
              THEN /\ pc' = "done"
                   /\ out' = IF DeleteIfMissing = "false"
                             THEN [NoOut EXCEPT !.kind = "return",
                                                !.flag = "False"]
                             ELSE [NoOut EXCEPT !.kind = "raise",
                                       !.exc = "OpenStackCloudException"]
              ELSE /\ pc' = "delete_request"
                   /\ out' = out
    /\ lpc' = "off"
    /\ lst' = NoLst
    /\ UNCHANGED <<other, sizes, server, cache, op>>

\* A delete_share that ignores force.
DeleteVerb_plain(force) == "delete"

\* The request delete_share sends for the share: the action
\* {'os-force_delete': None} when force, a plain DELETE otherwise.
DeleteVerb(force) == IF force THEN "action" ELSE "delete"

\* The answer of the service to the request. A share that is gone is
\* not-found; a plain DELETE is rejected unless the share is in a deletable
\* state; a force delete is taken in any state; any request can fail.
DeleteAnswers(status, verb) ==
    IF status = Absent THEN {"notfound", "error"}
    ELSE IF verb = "delete" /\ status \notin {"available", "error"}
         THEN {"error"}
         ELSE {"ok", "error"}

\* A delete_share without the except clause for not-found.
DeleteAfterRequest_uncaught(answer, wait) ==
    CASE answer \in {"notfound", "error"} -> "raise"
      [] wait                              -> "wait"
      [] OTHER                             -> "true"

\* What delete_share does with the answer: not-found is logged and False is
\* returned from inside the try; any other error leaves through
\* shade_exceptions; otherwise the cache is invalidated again and the wait
\* loop follows when wait is set.
DeleteAfterRequest(answer, wait) ==
    CASE answer = "notfound" -> "false"
      [] answer = "error"    -> "raise"
      [] wait                -> "wait"
      [] OTHER               -> "true"

\* The cache entry after the request was answered: only the path that
\* leaves the with block normally reaches the second invalidate.
DeleteCache(entry, next) ==
    IF next \in {"wait", "true"} THEN Invalidate ELSE entry

DeleteRequest ==
    /\ pc = "delete_request"
    /\ LET verb == DeleteVerb(op.force)
       IN  \E answer \in DeleteAnswers(server[loc.share_id], verb) :
             LET next == DeleteAfterRequest(answer, op.wait)
             IN  /\ server' = IF answer = "ok"
                              THEN [server EXCEPT ![loc.share_id] = "deleting"]
                              ELSE server
                 /\ cache' = DeleteCache(cache, next)
                 /\ gh' = [gh EXCEPT
                              !.req = verb,
                              !.resp = answer,
                              !.nDelete = IF verb = "delete" THEN @ + 1 ELSE @,
                              !.nAction = IF verb = "action" THEN @ + 1 ELSE @,
                              !.inv2 = next \in {"wait", "true"},
                              !.cacheOld = cache'.hit]
                 /\ pc' = IF next = "wait" THEN "delete_iter" ELSE "done"
                 /\ out' = CASE next = "false" ->
                                  [NoOut EXCEPT !.kind = "return",
                                                !.flag = "False"]
                             [] next = "true" ->
                                  [NoOut EXCEPT !.kind = "return",
                                                !.flag = "True"]
                             [] next = "raise" ->
                                  [NoOut EXCEPT !.kind = "raise",
                                       !.exc = "OpenStackCloudException"]
                             [] OTHER -> out
    /\ UNCHANGED <<other, sizes, op, loc, lpc, lst>>

\* for count in utils.iterate_timeout(timeout, ...): the next yield, followed
\* by self.get_share(share['id']), or the timeout.
DeleteIter ==
    /\ pc = "delete_iter"
    /\ IF iterate_timeout(op.timeout, loc.elapsed)
       THEN /\ pc' = "delete_poll"
            /\ lpc' = "call"
            /\ gh' = [gh EXCEPT !.looped = TRUE, !.polled = TRUE]
            /\ out' = out
       ELSE /\ pc' = "done"
            /\ lpc' = lpc
            /\ gh' = [gh EXCEPT !.looped = TRUE]
            /\ out' = [NoOut EXCEPT !.kind = "raise",
                                    !.exc = "OpenStackCloudTimeout"]
    /\ UNCHANGED <<other, sizes, server, cache, op, loc, lst>>

\* A wait loop that breaks once the share is shown as 'deleted'.
DeleteGone_status(share) == share.status = "deleted"

\* The test of the wait loop inverted: break while the share is found.
DeleteGone_inverted(share) == share # NoShare

\* if not self.get_share(share['id']): break
DeleteGone(share) == share = NoShare

\* The polled share is examined: the loop ends and True is returned, or the
\* loop goes on after a sleep.
DeletePoll ==
    /\ pc = "delete_poll"
    /\ lpc = "ret"
    /\ LET share == get_share(lst.ret, loc.share_id)
       IN  /\ gh' = [ListDone(gh) EXCEPT !.lastPoll =
                        IF share = NoShare THEN "nothing" ELSE share.status]
           /\ IF DeleteGone(share)
              THEN /\ pc' = "done"
                   /\ out' = [NoOut EXCEPT !.kind = "return", !.flag = "True"]
                   /\ loc' = loc
              ELSE /\ pc' = "delete_iter"
                   /\ out' = out
                   /\ loc' = [loc EXCEPT !.elapsed = Sleep(op.timeout, @)]
    /\ lpc' = "off"
    /\ lst' = NoLst
    /\ UNCHANGED <<other, sizes, server, cache, op>>

(* ------------------------------ specification -------------------------- *)
Next ==
    \/ ServerStep
    \/ CacheExpire
    \/ ListCacheLookup
    \/ ListFirstPage
    \/ ListNextPage
    \/ ListStore
    \/ ListRaise
    \/ CallListShares
    \/ ListSharesReturn
    \/ CallGetShare
    \/ GetShareReturn
    \/ CallCreateShare
    \/ CreatePost
    \/ CreateIter
    \/ CreatePoll
    \/ CallUpdateShare
    \/ UpdateLookup
    \/ UpdatePut
    \/ CallDeleteShare
    \/ DeleteLookup
    \/ DeleteRequest
    \/ DeleteIter
    \/ DeletePoll
    \/ Finish

Spec == Init /\ [][Next]_vars

(* ------------------------- list_shares, running ------------------------ *)
(* The caller calls list_shares only, and a call that has started goes on: *)
(* the caller's thread runs, and each request it sends is answered, with a *)
(* page or with an error.                                                  *)
ListNext ==
    \/ ServerStep
    \/ CacheExpire
    \/ CallListShares
    \/ ListCacheLookup
    \/ ListFirstPage
    \/ ListNextPage
    \/ ListStore
    \/ ListRaise
    \/ ListSharesReturn
    \/ Finish

ListFairSpec ==
    /\ Init
    /\ [][ListNext]_vars
    /\ WF_vars(ListCacheLookup)
    /\ WF_vars(ListFirstPage)
    /\ WF_vars(ListNextPage)
    /\ WF_vars(ListStore)
    /\ WF_vars(ListRaise)

(* ----------------------------- two callers ----------------------------- *)
(* A second caller of the same cloud object runs list_shares while the     *)
(* first runs create_share: both go through the one cache entry, which no  *)
(* lock guards. other holds the second caller's call: its  *)
(* position lpc, the locals attempt, shares and endpoint, and two history  *)
(* flags: before (every page of the attempt was fetched while the first    *)
(* caller had sent no request of its operation) and late (the call stored  *)
(* such a listing after the first caller's request and invalidation).      *)

\* The second caller calls list_shares() and the decorator finds no entry
\* (with an entry the call returns it and nothing changes).
OtherCall ==
    /\ other.lpc = "off"
    /\ ~cache.hit
    /\ other' = [NoOther EXCEPT !.lpc = "first", !.attempt = 1]
    /\ UNCHANGED <<server, cache, pc, op, loc, lpc, lst, out, gh, sizes>>

\* The head of an attempt of the second caller and its first-page request;
\* an error ends the call.
OtherFirstPage ==
    /\ other.lpc = "first"
    /\ \/ \E data \in PageBodies(server, 0) :
            LET r == AfterPage(AttemptShares(other.shares), data)
            IN  other' = [other EXCEPT
                             !.shares = r.shares,
                             !.endpoint = r.endpoint,
                             !.lpc = IF r.endpoint = 0 THEN "store" ELSE "next",
                             !.before = (gh.req = "none")]
       \/ other' = NoOther
    /\ UNCHANGED <<server, cache, pc, op, loc, lpc, lst, out, gh, sizes>>

\* _list of the second caller following a next link.
OtherNextPage ==
    /\ other.lpc = "next"
    /\ \/ \E data \in PageBodies(server, other.endpoint) :
            LET r == _list(other.shares, data)
            IN  other' = [other EXCEPT
                             !.shares = r.shares,
                             !.endpoint = r.endpoint,
                             !.lpc = IF r.endpoint = 0 THEN "store" ELSE "next",
                             !.before = @ /\ gh.req = "none"]
       \/ \E e \in {"OpenStackCloudURINotFound", "OpenStackCloudHTTPError"} :
            LET o == NextLinkFailed(e, other.attempt)
            IN  other' = IF o = "retry"
                            THEN [other EXCEPT !.attempt = @ + 1,
                                               !.endpoint = 0, !.lpc = "first"]
                         ELSE IF o = "return"
                            THEN [other EXCEPT !.endpoint = 0, !.lpc = "store"]
                         ELSE NoOther
    /\ UNCHANGED <<server, cache, pc, op, loc, lpc, lst, out, gh, sizes>>

\* The return of the second caller's list_shares: the decorator stores the
\* listing over whatever the entry holds.
OtherStore ==
    /\ other.lpc = "store"
    /\ LET value == _normalize_shares(other.shares)
           old == other.before /\ gh.req # "none"
       IN  /\ cache' = CachePut(cache, value)
           /\ other' = [NoOther EXCEPT !.late =
                            _no_pending_shares(value) /\ old]
           /\ gh' = [gh EXCEPT !.cacheOld =
                        IF _no_pending_shares(value) THEN old ELSE @]
    /\ UNCHANGED <<server, pc, op, loc, lpc, lst, out, sizes>>

\* The first caller calls create_share(share_proto, size), not waiting.
CallCreateNoWait ==
    CallCreateShare /\ ~op'.wait /\ op'.timeout = NoTimeout

TwoNext ==
    \/ ServerStep
    \/ CacheExpire
    \/ CallCreateNoWait
    \/ CreatePost
    \/ Finish
    \/ OtherCall
    \/ OtherFirstPage
    \/ OtherNextPage
    \/ OtherStore

TwoSpec == Init /\ [][TwoNext]_vars

(* --------------------------- waiting, running -------------------------- *)
(* create_share and delete_share called with wait=True and timeout=None    *)
(* while a second caller runs list_shares, under the conditions a wait     *)
(* without timeout counts on: the back end finishes what it was asked to   *)
(* do (a share being created becomes available, a share being deleted      *)
(* disappears) and changes nothing else, each page request of the waiting  *)
(* two callers is answered with the page, a cache entry expires, and the   *)
(* waiting caller's thread runs.                                           *)

\* The back end finishes a creation or a deletion.
BackEndStep ==
    /\ ServerStep
    /\ \E i \in ShareIds :
          \/ server[i] = "creating" /\ server'[i] = "available"
          \/ server[i] = "deleting" /\ server'[i] = Absent

\* The caller's page requests, answered with the page.
ListFirstPageOk == ListFirstPage /\ lpc' # "raise"

ListNextPageOk ==
    ListNextPage /\ lpc' # "raise" /\ gh'.lnotfound = gh.lnotfound

\* The second caller's page requests, answered with the page.
OtherFirstPageOk == OtherFirstPage /\ other'.lpc # "off"

OtherNextPageOk ==
    OtherNextPage /\ other'.lpc # "off" /\ other'.attempt = other.attempt

\* The caller calls create_share(..., wait=True, timeout=None).
CallCreateWait ==
    CallCreateShare /\ op'.wait /\ op'.timeout = NoTimeout

\* The caller calls delete_share(name_or_id, wait=True, timeout=None).
CallDeleteWait ==
    CallDeleteShare /\ op'.wait /\ op'.timeout = NoTimeout

CreateWaitNext ==
    \/ BackEndStep
    \/ CacheExpire
    \/ ListCacheLookup
    \/ ListFirstPageOk
    \/ ListNextPageOk
    \/ ListStore
    \/ CallCreateWait
    \/ CreatePost
    \/ CreateIter
    \/ CreatePoll
    \/ Finish
    \/ OtherCall
    \/ OtherFirstPageOk
    \/ OtherNextPageOk
    \/ OtherStore

\* Only create_share is called: the service gives every new share an id
\* no share had before.
CreateFairSpec ==
    /\ Init
    /\ [][CreateWaitNext]_vars
    /\ WF_vars(BackEndStep)
    /\ WF_vars(CacheExpire)
    /\ WF_vars(ListCacheLookup)
    /\ WF_vars(ListFirstPageOk)
    /\ WF_vars(ListNextPageOk)
    /\ WF_vars(ListStore)
    /\ WF_vars(CreateIter)
    /\ WF_vars(CreatePoll)

DeleteWaitNext ==
    \/ BackEndStep
    \/ CacheExpire
    \/ ListCacheLookup
    \/ ListFirstPageOk
    \/ ListNextPageOk
    \/ ListStore
    \/ CallDeleteWait
    \/ DeleteLookup
    \/ DeleteRequest
    \/ DeleteIter
    \/ DeletePoll
    \/ Finish
    \/ OtherCall
    \/ OtherFirstPageOk
    \/ OtherNextPageOk
    \/ OtherStore

\* Only delete_share is called: a share that is gone stays gone.
DeleteFairSpec ==
    /\ Init
    /\ [][DeleteWaitNext]_vars
    /\ WF_vars(BackEndStep)
    /\ WF_vars(CacheExpire)
    /\ WF_vars(ListCacheLookup)
    /\ WF_vars(ListFirstPageOk)
    /\ WF_vars(ListNextPageOk)
    /\ WF_vars(ListStore)
    /\ WF_vars(DeleteIter)
    /\ WF_vars(DeletePoll)

(* ------------------------------ the proxy ------------------------------ *)
(* Proxy of openstack/shared_file_system/v2/_proxy.py: wait_for_status,    *)
(* wait_for_delete, extend_share and shrink_share, called by one caller on *)
(* a share of the same service. pc, op, loc, out and gh are the caller's   *)
(* position, arguments, locals, outcome and history as above, with the     *)
(* fields these operations have.                                           *)
Sizes == 1..MaxSize
Waits == 0..MaxWait
Intervals == 1..MaxInterval

\* failures=None of wait_for_status.
NoFailures == {"None"}
\* The failures and status arguments the caller passes.
FailureArgs == {NoFailures, {"error"}}
StatusArgs == {"ACTIVE", "available"}

NoUrl == [base |-> "none", id |-> 0, leaf |-> "none"]
ProxyNoOp == [name |-> "none", id |-> 0, status |-> "none",
              failures |-> NoFailures, interval |-> 0, wait |-> 0,
              size |-> 0]
ProxyNoLoc == [elapsed |-> 0, failures |-> {}, interval |-> 0, wait |-> 0]
ProxyNoGh == [nPost |-> 0, nGet |-> 0, url |-> NoUrl, body |-> NoAction,
              lastGet |-> "none", earlier |-> {}, resp |-> "none",
              status0 |-> "none", size0 |-> 0]

\* The state after construction, for a caller of the proxy: the service
\* holds shares in any status it reports, 'Error' among them.
ProxyInit ==
    /\ server \in [ShareIds -> {Absent, "available", "creating", "Error"}]
    /\ cache = NoValue
    /\ pc = "idle"
    /\ op = ProxyNoOp
    /\ loc = ProxyNoLoc
    /\ lpc = "off"
    /\ lst = NoLst
    /\ out = NoOut
    /\ gh = ProxyNoGh
    /\ other = NoOther
    /\ sizes = NoSizes

\* The back end carries out a size action the service accepted.
ActionStep ==
    /\ \E i \in ShareIds :
          /\ sizes[i].action # NoAction
          /\ sizes' = [sizes EXCEPT ![i] = [size |-> @.action.new_size,
                                            action |-> NoAction]]
    /\ UNCHANGED <<server, cache, pc, op, loc, lpc, lst, out, gh, other>>

\* A wait_for_status that takes failures=None as no failure status at all.
WaitFailures_empty(failures) ==
    IF failures = NoFailures THEN {} ELSE failures

\* failures = ['Error'] if failures is None else failures
WaitFailures(failures) ==
    IF failures = NoFailures THEN {"Error"} ELSE failures

\* resource.wait_for_status, one check: what the fetched status leads to.
StatusPolled(status, wanted, failures) ==
    IF status = wanted THEN "return"
    ELSE IF status \in failures THEN "raise"
    ELSE "continue"

\* wait_for_status(res, status, failures, interval, wait) is called.
CallWaitForStatus ==
    /\ pc = "idle"
    /\ \E i \in ShareIds, st \in StatusArgs, f \in FailureArgs,
          iv \in Intervals, w \in Waits :
          /\ op' = [ProxyNoOp EXCEPT !.name = "wait_for_status", !.id = i,
                        !.status = st, !.failures = f, !.interval = iv,
                        !.wait = w]
          /\ loc' = [ProxyNoLoc EXCEPT !.failures = WaitFailures(f),
                        !.interval = iv, !.wait = w]
    /\ pc' = "status_iter"
    /\ out' = NoOut
    /\ gh' = ProxyNoGh
    /\ UNCHANGED <<server, cache, lpc, lst, other, sizes>>

\* The timeout loop of resource.wait_for_status: the next check, or the
\* timeout error once the wait budget has elapsed.
WaitStatusIter ==
    /\ pc = "status_iter"
    /\ IF iterate_timeout(loc.wait, loc.elapsed)
       THEN /\ pc' = "status_fetch"
            /\ out' = out
       ELSE /\ pc' = "done"
            /\ out' = [NoOut EXCEPT !.kind = "raise",
                                    !.exc = "ResourceTimeout"]
    /\ UNCHANGED <<server, cache, op, loc, lpc, lst, gh, other, sizes>>

\* One check of resource.wait_for_status: the resource is fetched and its
\* status compared; the loop goes on after a sleep of interval seconds.
\* Fetching a resource that is gone raises the not-found error.
WaitStatusFetch ==
    /\ pc = "status_fetch"
    /\ LET status == server[op.id]
           next == IF status = Absent THEN "gone"
                   ELSE StatusPolled(status, op.status, loc.failures)
       IN  /\ gh' = [gh EXCEPT !.nGet = @ + 1, !.lastGet = status,
                         !.earlier = IF gh.lastGet = "none" THEN @
                                     ELSE @ \cup {gh.lastGet}]
           /\ loc' = [loc EXCEPT !.elapsed = IF next = "continue"
                                             THEN @ + loc.interval ELSE @]
           /\ pc' = IF next = "continue" THEN "status_iter" ELSE "done"
           /\ out' = CASE next = "return" -> [NoOut EXCEPT !.kind = "return"]
                       [] next = "raise" ->
                            [NoOut EXCEPT !.kind = "raise",
                                          !.exc = "ResourceFailure"]
                       [] next = "gone" ->
                            [NoOut EXCEPT !.kind = "raise",
                                          !.exc = "NotFoundException"]
                       [] OTHER -> out
    /\ UNCHANGED <<server, cache, op, lpc, lst, other, sizes>>

\* A wait_for_delete that hands wait and interval over in the other order.
WaitForDeleteArgs_swapped(interval, wait) ==
    [interval |-> wait, wait |-> interval]

\* return resource.wait_for_delete(self, res, interval, wait)
WaitForDeleteArgs(interval, wait) ==
    [interval |-> interval, wait |-> wait]

\* wait_for_delete(res, interval, wait) is called.
CallWaitForDelete ==
    /\ pc = "idle"
    /\ \E i \in ShareIds, iv \in Intervals, w \in Waits :
          LET a == WaitForDeleteArgs(iv, w)
          IN  /\ op' = [ProxyNoOp EXCEPT !.name = "wait_for_delete",
                            !.id = i, !.interval = iv, !.wait = w]
              /\ loc' = [ProxyNoLoc EXCEPT !.interval = a.interval,
                            !.wait = a.wait]
    /\ pc' = "gone_iter"
    /\ out' = NoOut
    /\ gh' = ProxyNoGh
    /\ UNCHANGED <<server, cache, lpc, lst, other, sizes>>

\* The timeout loop of resource.wait_for_delete.
WaitDeleteIter ==
    /\ pc = "gone_iter"
    /\ IF iterate_timeout(loc.wait, loc.elapsed)
       THEN /\ pc' = "gone_fetch"
            /\ out' = out
       ELSE /\ pc' = "done"
            /\ out' = [NoOut EXCEPT !.kind = "raise",
                                    !.exc = "ResourceTimeout"]
    /\ UNCHANGED <<server, cache, op, loc, lpc, lst, gh, other, sizes>>

\* One check of resource.wait_for_delete: a fetch answered not-found ends
\* the wait, any other is followed by a sleep of interval seconds.
WaitDeleteFetch ==
    /\ pc = "gone_fetch"
    /\ LET status == server[op.id]
       IN  /\ gh' = [gh EXCEPT !.nGet = @ + 1, !.lastGet = status,
                         !.earlier = IF gh.lastGet = "none" THEN @
                                     ELSE @ \cup {gh.lastGet}]
           /\ loc' = [loc EXCEPT !.elapsed = IF status = Absent THEN @
                                             ELSE @ + loc.interval]
           /\ pc' = IF status = Absent THEN "done" ELSE "gone_iter"
           /\ out' = IF status = Absent
                     THEN [NoOut EXCEPT !.kind = "return"]
                     ELSE out
    /\ UNCHANGED <<server, cache, op, lpc, lst, other, sizes>>

\* Share._action: the url of the POST, utils.urljoin(Share.base_path,
\* self.id, 'action').
_action(id) == [base |-> "shares", id |-> id, leaf |-> "action"]

\* Share.extend: body = {'os-extend': {'new_size': size}}
extend(size) == [key |-> "os-extend", new_size |-> size]

\* A shrink that sends the body of extend.
shrink_extend(size) == [key |-> "os-extend", new_size |-> size]

\* Share.shrink: body = {'os-shrink': {'new_size': size}}
shrink(size) == [key |-> "os-shrink", new_size |-> size]

\* Whether the service accepts a size action on share id.
Accepts(srv, szs, id, body) ==
    /\ srv[id] = "available"
    /\ \/ body.key = "os-extend" /\ body.new_size > szs[id].size
       \/ body.key = "os-shrink" /\ body.new_size < szs[id].size

\* session.post(url, json=body, headers=headers): the one request of
\* extend_share and shrink_share. The service queues an accepted action for
\* its back end; what the session does with a refusal is not decided here
\* (it raises, or the answer is dropped with the return value of _action).
PostAction(name, id, size, body) ==
    /\ op' = [ProxyNoOp EXCEPT !.name = name, !.id = id, !.size = size]
    /\ loc' = ProxyNoLoc
    /\ pc' = "done"
    /\ LET ok == Accepts(server, sizes, id, body)
       IN  /\ sizes' = IF ok THEN [sizes EXCEPT ![id].action = body]
                       ELSE sizes
           /\ gh' = [ProxyNoGh EXCEPT !.nPost = 1, !.url = _action(id),
                         !.body = body,
                         !.resp = IF ok THEN "accepted" ELSE "refused",
                         !.status0 = server[id], !.size0 = sizes[id].size]
           /\ \/ out' = [NoOut EXCEPT !.kind = "return"]
              \/ /\ ~ok
                 /\ out' = [NoOut EXCEPT !.kind = "raise",
                                         !.exc = "HttpException"]
    /\ UNCHANGED <<server, cache, lpc, lst, other>>

\* extend_share(share, size): _get_resource, then share.extend(self, size).
ExtendShare ==
    /\ pc = "idle"
    /\ \E i \in ShareIds, n \in Sizes :
          PostAction("extend_share", i, n, extend(n))

\* shrink_share(share, size): _get_resource, then share.shrink(self, size).
ShrinkShare ==
    /\ pc = "idle"
    /\ \E i \in ShareIds, n \in Sizes :
          PostAction("shrink_share", i, n, shrink(n))

\* The caller takes the outcome of a proxy operation.
ProxyFinish ==
    /\ pc = "done"
    /\ pc' = "idle"
    /\ op' = ProxyNoOp
    /\ loc' = ProxyNoLoc
    /\ out' = NoOut
    /\ gh' = ProxyNoGh
    /\ UNCHANGED <<server, cache, lpc, lst, other, sizes>>

ProxyNext ==
    \/ ServerStep
    \/ ActionStep
    \/ CallWaitForStatus
    \/ WaitStatusIter
    \/ WaitStatusFetch
    \/ CallWaitForDelete
    \/ WaitDeleteIter
    \/ WaitDeleteFetch
    \/ ExtendShare
    \/ ShrinkShare
    \/ ProxyFinish

ProxySpec == ProxyInit /\ [][ProxyNext]_vars

(* ------------------------------- claims -------------------------------- *)
\* An error of a request itself (the POST, or a listing request of a poll),
\* which the operations let through as the session raised it.
SessionErrors == {"OpenStackCloudHTTPError", "OpenStackCloudURINotFound"}

Finished(name) == pc = "done" /\ op.name = name

\* C1: create_share with wait=True, every request of which was answered,
\* ends in one of three ways: it returns the polled share, whose status is
\* 'available'; it raises the operation error because the status of the POST
\* response or of a polled share is 'error'; or it raises the timeout error,
\* with a timeout configured and elapsed. It never returns a share in
\* another status.
C1_CreateWaitOutcomes ==
    (Finished("create_share") /\ op.wait /\ out.exc \notin SessionErrors) =>
        \/ /\ out.kind = "return"
           /\ out.share.status = "available"
           /\ out.share.id = loc.share_id
           /\ gh.lastPoll = "available"
        \/ /\ out.kind = "raise"
           /\ out.exc = "OpenStackCloudException"
           /\ \/ gh.postStatus = "error" /\ ~gh.polled
              \/ gh.lastPoll = "error"
        \/ /\ out.kind = "raise"
           /\ out.exc = "OpenStackCloudTimeout"
           /\ op.timeout # NoTimeout
           /\ loc.elapsed >= op.timeout

\* C1 witness: a waiting create_share returned the share it polled as
\* 'available' after the POST had answered 'creating'.
C1_Witness ==
    /\ Finished("create_share") /\ op.wait
    /\ gh.postStatus = "creating"
    /\ out.kind = "return" /\ out.share.status = "available"

\* C2: create_share with wait=False makes no get_share/list_shares poll
\* after the POST: a POST response in status 'error' raises the operation
\* error, any other response is returned as it is, whatever its status.
C2_CreateNoWait ==
    (Finished("create_share") /\ ~op.wait /\ gh.resp = "ok") =>
        /\ ~gh.polled /\ ~gh.looped
        /\ gh.postStatus = "error" =>
              out.kind = "raise" /\ out.exc = "OpenStackCloudException"
        /\ gh.postStatus # "error" =>
              /\ out.kind = "return"
              /\ out.share = [id |-> loc.share_id, status |-> gh.postStatus]

\* C2 witness: create_share with wait=False returned a share still in
\* status 'creating'.
C2_Witness ==
    /\ Finished("create_share") /\ ~op.wait
    /\ out.kind = "return" /\ out.share.status = "creating"

Steady(shares) ==
    \A i \in 1..Len(shares) : shares[i].status \in {"available", "error"}

\* C3: in every reachable state the list_shares cache entry is empty or a
\* snapshot whose shares are all in status 'available' or 'error'; when
\* list_shares has fetched a result with a share in another status, nothing
\* is in the cache, so the next call fetches again.
C3_CacheSteady ==
    /\ cache.hit => Steady(cache.value)
    /\ (lpc = "ret" /\ gh.lfetched /\ ~Steady(lst.ret)) => ~cache.hit

\* C3 witness: list_shares returns a fetched listing with a share that is
\* not in a steady state, and the cache is empty.
C3_Witness ==
    /\ lpc = "ret" /\ gh.lfetched
    /\ ~Steady(lst.ret)
    /\ ~cache.hit

Mutating == {"create_share", "update_share", "delete_share"}

\* C4: when create_share, update_share or delete_share finishes after the
\* service accepted its mutating request, the cache holds no list_shares
\* snapshot that was fetched before that request: the operation has
\* invalidated the cache after sending it.
C4_MutationInvalidates ==
    (pc = "done" /\ op.name \in Mutating /\ gh.resp = "ok") => ~gh.cacheOld

\* C5: whenever delete_share returns after sending its DELETE or
\* force-delete request, it has invalidated the cache once before the lookup
\* and once more after the request, also when the request was answered
\* not-found.
C5_DeleteInvalidatesTwice ==
    (Finished("delete_share") /\ gh.req # "none" /\ out.kind = "return") =>
        gh.inv1 /\ gh.inv2

\* C6: delete_share for a name or id that get_share does not resolve returns
\* False, raises nothing, sends neither a DELETE nor an action request and
\* does not enter the wait loop, whatever wait, timeout and force are.
C6_DeleteUnresolved ==
    (Finished("delete_share") /\ gh.resolved = "no") =>
        /\ out.kind = "return" /\ out.flag = "False"
        /\ gh.req = "none" /\ gh.nDelete = 0 /\ gh.nAction = 0
        /\ ~gh.looped /\ ~gh.polled

\* C6 witness: delete_share with wait and force set and a timeout of 0
\* returned False for a key that resolved to nothing.
C6_Witness ==
    /\ Finished("delete_share") /\ gh.resolved = "no"
    /\ op.wait /\ op.force /\ op.timeout = 0
    /\ out.flag = "False"

\* C7: for a share that get_share resolved, delete_share sends exactly one
\* mutating request: with force the POST of {'os-force_delete': None} to the
\* action endpoint and no DELETE, without force the DELETE and no action.
C7_DeleteOneRequest ==
    (op.name = "delete_share" /\ gh.resolved = "yes"
        /\ pc # "delete_request") =>
        IF op.force
        THEN gh.req = "action" /\ gh.nAction = 1 /\ gh.nDelete = 0
        ELSE gh.req = "delete" /\ gh.nDelete = 1 /\ gh.nAction = 0

\* C7 witness: a forced delete_share returned True after one action request.
C7_Witness ==
    /\ Finished("delete_share") /\ op.force
    /\ gh.nAction = 1 /\ gh.nDelete = 0
    /\ out.flag = "True"

\* C8: when the DELETE or force-delete request is answered not-found,
\* delete_share raises nothing and does not enter the wait loop: the share
\* is taken as gone and the boolean result, False, says so.
C8_DeleteNotFound ==
    (Finished("delete_share") /\ gh.resp = "notfound") =>
        /\ out.kind = "return" /\ out.exc = "none"
        /\ out.flag = "False"
        /\ ~gh.looped /\ ~gh.polled

\* C8 witness: a waiting delete_share whose DELETE was answered not-found
\* has returned.
C8_Witness ==
    /\ Finished("delete_share") /\ op.wait /\ ~op.force
    /\ gh.resp = "notfound" /\ gh.nDelete = 1
    /\ out.kind = "return"

\* C9: delete_share with wait=True on an existing share, its request
\* accepted and its polls answered, returns True only after a get_share poll
\* made after the request found nothing; otherwise it ends with the timeout
\* error, with a timeout configured and elapsed and the share still found
\* by the last poll.
C9_DeleteWait ==
    (Finished("delete_share") /\ op.wait /\ gh.resp = "ok"
        /\ out.exc \notin SessionErrors) =>
        \/ /\ out.kind = "return" /\ out.flag = "True"
           /\ gh.polled /\ gh.lastPoll = "nothing"
        \/ /\ out.kind = "raise" /\ out.exc = "OpenStackCloudTimeout"
           /\ op.timeout # NoTimeout /\ loc.elapsed >= op.timeout
           /\ gh.lastPoll # "nothing"

\* C9 witness: a waiting delete_share first polled the share as still
\* there (elapsed counts that sleep) and returned True once a poll found
\* nothing.
C9_Witness ==
    /\ Finished("delete_share") /\ op.wait /\ gh.resp = "ok"
    /\ loc.elapsed = 1
    /\ out.flag = "True" /\ gh.lastPoll = "nothing"

SameItems(a, b) ==
    /\ Len(a) = Len(b)
    /\ \A i \in 1..Len(a) : a[i].id = b[i].id /\ a[i].status = b[i].status

\* C10: when the first page of GET /shares/detail carries no next link
\* (no shares_links key, or one without a rel=next entry), list_shares
\* returns exactly the items of that page, in the order of the page, each
\* once, and the attempt made that one request only.
C10_SinglePage ==
    (lpc = "ret" /\ gh.lfetched /\ gh.lfirst.links \in {"absent", "nonext"})
        => SameItems(lst.ret, gh.lfirst.shares) /\ gh.areqs = 1

\* C10 witness: list_shares returns the two shares of a first page that
\* has a shares_links key without a next entry.
C10_Witness ==
    /\ lpc = "ret" /\ gh.lfetched
    /\ gh.lfirst.links = "nonext"
    /\ Len(gh.lfirst.shares) = 2
    /\ Len(lst.ret) = 2 /\ lst.ret[1].id < lst.ret[2].id

\* C11: when every request for a next link of the page chain is answered
\* with a page (none reports not-found), list_shares returns the items of
\* all pages of the chain, in chain order, the items of each page once,
\* and it does so in its first attempt.
C11_AllPages ==
    (lpc = "ret" /\ gh.lfetched /\ gh.lnotfound = 0)
        => /\ SameItems(lst.ret, gh.litems)
           /\ lst.attempt = 1
           /\ ~gh.lexhausted

\* C11 witness: list_shares returns two shares that came on two pages, the
\* second reached through the next link of the first.
C11_Witness ==
    /\ lpc = "ret" /\ gh.lfetched /\ gh.lnotfound = 0
    /\ gh.lfirst.links = "next" /\ Len(gh.lfirst.shares) = 1
    /\ gh.areqs = 2
    /\ Len(lst.ret) = 2 /\ lst.ret[1].id < lst.ret[2].id

\* C12: when the request for a next link reports not-found in each of the
\* 5 attempts, list_shares does not raise: it goes on to its return, and
\* what it returns is exactly the items the fifth attempt had collected
\* when its next link failed.
C12_ExhaustedReturns ==
    (gh.lfetched /\ gh.lnotfound = attempts)
        => /\ lpc \in {"store", "ret"}
           /\ lst.attempt = attempts
           /\ lst.err = "none"
           /\ lpc = "ret" => SameItems(lst.ret, gh.litems)

\* C12 witness: list_shares returns the one share of the first page of
\* its fifth attempt after five next links were not found.
C12_Witness ==
    /\ lpc = "ret" /\ gh.lfetched /\ gh.lnotfound = attempts
    /\ gh.lexhausted
    /\ Len(lst.ret) = 1 /\ Len(gh.lfirst.shares) = 1

\* C16: whenever list_shares returns a listing it fetched, the listing
\* holds the items of the pages of the last attempt only, whatever
\* attempts failed before it: nothing an earlier attempt collected is
\* carried over.
C16_LastAttemptOnly ==
    /\ (lpc = "ret" /\ gh.lfetched) => SameItems(lst.ret, gh.litems)
    /\ (lpc = "store" /\ gh.lfetched) => lst.shares = gh.litems

\* C16 witness: a second or later attempt finds an empty listing and
\* list_shares returns no share, although each failed attempt before it
\* had collected at least the share of a first page.
C16_Witness ==
    /\ lpc = "ret" /\ gh.lfetched
    /\ lst.attempt >= 2 /\ gh.lnotfound >= 1
    /\ Len(lst.ret) = 0

\* C17: list_shares starts a further attempt only after a next link
\* reported not-found (the attempt number is one more than the not-founds
\* so far, up to the last attempt); an error of the first-page request,
\* not-found included, and any other error of a next-link request goes to
\* the caller as it is, with nothing stored in the cache.
C17_OnlyNextNotFoundRestarts ==
    /\ (gh.lfetched /\ lpc \in {"first", "next", "store", "ret", "raise"})
          => lst.attempt = (IF gh.lexhausted THEN gh.lnotfound
                           ELSE gh.lnotfound + 1)
    /\ lpc = "raise"
          => /\ \/ gh.lraisedBy = "first" /\ lst.err \in SessionErrors
                \/ /\ gh.lraisedBy = "next"
                   /\ lst.err = "OpenStackCloudHTTPError"
             /\ ~cache.hit
             /\ lst.ret = <<>>

\* C17 witness: the first-page request of a second attempt reports
\* not-found and list_shares raises it.
C17_Witness ==
    /\ lpc = "raise" /\ gh.lraisedBy = "first"
    /\ lst.err = "OpenStackCloudURINotFound"
    /\ lst.attempt = 2 /\ gh.lnotfound = 1

\* C18: with timeout=None the wait loops of create_share and delete_share
\* never end with the timeout error. When every request is answered,
\* create_share leaves its loop only by returning the share polled as
\* 'available' or by raising because the polled share is in 'error', and
\* delete_share only by returning True after get_share found nothing. A
\* poll of create_share that finds no share leaves it in the loop, with no
\* outcome.
C18_NoTimeoutLoops ==
    /\ (pc = "done" /\ op.name \in {"create_share", "delete_share"}
          /\ op.wait /\ op.timeout = NoTimeout)
          => out.exc # "OpenStackCloudTimeout"
    /\ (Finished("create_share") /\ op.wait /\ op.timeout = NoTimeout
          /\ gh.looped /\ out.exc \notin SessionErrors)
          => \/ /\ out.kind = "return"
                /\ out.share.status = "available"
                /\ gh.lastPoll = "available"
             \/ /\ out.kind = "raise"
                /\ out.exc = "OpenStackCloudException"
                /\ gh.lastPoll = "error"
    /\ (Finished("delete_share") /\ op.wait /\ op.timeout = NoTimeout
          /\ gh.looped /\ out.exc \notin SessionErrors)
          => /\ out.kind = "return" /\ out.flag = "True"
             /\ gh.lastPoll = "nothing"
    /\ (op.name = "create_share" /\ pc = "create_iter"
          /\ op.timeout = NoTimeout)
          => out = NoOut /\ loc.elapsed = 0

\* C18 witness: a create_share waiting without timeout is back at the
\* head of its loop after a poll in which get_share found no share.
C18_Witness ==
    /\ op.name = "create_share" /\ pc = "create_iter"
    /\ op.timeout = NoTimeout
    /\ gh.polled /\ gh.lastPoll = "nothing"
    /\ loc.share = NoShare

\* C20: the cache holds results of completed traversals only: when
\* list_shares returns what its fifth attempt found after all 5 attempts
\* failed, that result has not been stored.
C20_OnlyCompleteCached ==
    (lpc = "ret" /\ gh.lfetched /\ gh.lexhausted) => ~cache.hit

\* The failure statuses wait_for_status is to use for the failures argument
\* of the call.
FailureList == IF op.failures = NoFailures THEN {"Error"} ELSE op.failures

\* C13: a wait_for_status on a resource that stays fetchable ends in one of
\* three ways: it returns once a fetched status equals the desired one; it
\* raises the failure error, not the timeout error, once a fetched status
\* is one of the failure statuses; or it raises the timeout error, the
\* wait budget elapsed and the last status neither. No earlier check saw
\* the desired status or a failure status, and with failures=None the
\* failure statuses are ['Error'].
C13_WaitForStatus ==
    (pc = "done" /\ op.name = "wait_for_status"
        /\ out.exc # "NotFoundException") =>
        /\ loc.failures = FailureList
        /\ gh.earlier \cap (FailureList \cup {op.status}) = {}
        /\ \/ /\ out.kind = "return"
              /\ gh.lastGet = op.status
           \/ /\ out.kind = "raise" /\ out.exc = "ResourceFailure"
              /\ gh.lastGet \in FailureList
              /\ gh.lastGet # op.status
           \/ /\ out.kind = "raise" /\ out.exc = "ResourceTimeout"
              /\ loc.elapsed >= op.wait
              /\ gh.lastGet \notin FailureList \cup {op.status}

\* C13 witness: wait_for_status called with failures=None raises the
\* failure error at its first check of a resource in status 'Error', with
\* wait budget left.
C13_Witness ==
    /\ pc = "done" /\ op.name = "wait_for_status"
    /\ op.failures = NoFailures
    /\ out.kind = "raise" /\ out.exc = "ResourceFailure"
    /\ gh.lastGet = "Error" /\ gh.nGet = 1
    /\ loc.elapsed < op.wait

\* C14: wait_for_delete returns only after a fetch of the resource was
\* answered not-found; otherwise it raises the timeout error, every fetch
\* having found the resource, and the fetches made one interval apart
\* cover the wait budget.
C14_WaitForDelete ==
    (pc = "done" /\ op.name = "wait_for_delete") =>
        \/ /\ out.kind = "return"
           /\ gh.nGet >= 1 /\ gh.lastGet = Absent
           /\ Absent \notin gh.earlier
        \/ /\ out.kind = "raise" /\ out.exc = "ResourceTimeout"
           /\ gh.lastGet # Absent /\ Absent \notin gh.earlier
           /\ gh.nGet * op.interval >= op.wait
           /\ gh.nGet >= 1 => (gh.nGet - 1) * op.interval < op.wait

\* C14 witness: wait_for_delete returns at its second fetch, the first
\* having found the resource.
C14_Witness ==
    /\ pc = "done" /\ op.name = "wait_for_delete"
    /\ out.kind = "return"
    /\ gh.nGet = 2 /\ gh.lastGet = Absent
    /\ gh.earlier # {}

\* C15: extend_share and shrink_share each make exactly one request, a
\* POST to /shares/{id}/action whose body is {'os-extend': {'new_size': N}}
\* or {'os-shrink': {'new_size': N}}, make no fetch and no sleep, and
\* return nothing.
C15_SizeActions ==
    (pc = "done" /\ op.name \in {"extend_share", "shrink_share"}) =>
        /\ gh.nPost = 1 /\ gh.nGet = 0
        /\ loc.elapsed = 0
        /\ gh.url = [base |-> "shares", id |-> op.id, leaf |-> "action"]
        /\ gh.body = [key |-> IF op.name = "extend_share" THEN "os-extend"
                              ELSE "os-shrink",
                      new_size |-> op.size]
        /\ out.kind = "return" => out.share = NoShare /\ out.flag = "none"

\* C15 witness: shrink_share has returned after the service accepted its
\* action, and the share still has the status and the size it had before.
C15_Witness ==
    /\ pc = "done" /\ op.name = "shrink_share"
    /\ out.kind = "return" /\ gh.resp = "accepted"
    /\ sizes[op.id].action = gh.body
    /\ sizes[op.id].size = gh.size0 /\ sizes[op.id].size # op.size
    /\ server[op.id] = gh.status0

\* C19: with a second caller running list_shares on the same cache, a
\* create_share whose POST was accepted can have returned while the cache
\* holds a listing from before the POST; the cache then holds it because
\* the second caller fetched it before the request and stored it after the
\* invalidation, the last write to the entry.
C19_StaleByLateStore ==
    (Finished("create_share") /\ gh.resp = "ok" /\ out.kind = "return"
        /\ gh.cacheOld)
        => cache.hit /\ gh.inv2 /\ other.late

\* C19 witness: create_share has returned its new share and the cache
\* holds a listing without it, which the second caller fetched before the
\* POST and stored after the invalidation.
C19_Witness ==
    /\ Finished("create_share") /\ gh.resp = "ok" /\ out.kind = "return"
    /\ gh.inv2
    /\ cache.hit /\ gh.cacheOld /\ other.late
    /\ server[loc.share_id] = "available"
    /\ get_share(cache.value, loc.share_id) = NoShare

\* The requests for the first page a list_shares call has sent are at most
\* attempts; before each but the first a next link was not found.
FirstPageRequests ==
    /\ gh.lfirsts <= attempts
    /\ (gh.lfetched /\ lpc = "first")
          => gh.lfirsts = gh.lnotfound /\ gh.lfirsts < attempts
    /\ (gh.lfetched /\ lpc \in {"next", "store", "ret", "raise"})
          => gh.lfirsts = (IF gh.lexhausted THEN gh.lnotfound
                          ELSE gh.lnotfound + 1)

\* C23: a list_shares call that finds no cache entry sends at most 5
\* requests for the first page, each after the first preceded by a
\* not-found of a next-link request of the attempt before, and the call
\* ends: it reaches its return or raises.
C23_ListTerminates ==
    /\ []FirstPageRequests
    /\ (lpc \in {"call", "first", "next", "store", "raise"})
          ~> (lpc \in {"ret", "off"})

\* C23 witness: list_shares returns after it sent the request for the
\* first page five times, the next link not found in each attempt.
C23_Witness ==
    /\ lpc = "ret" /\ gh.lfetched
    /\ gh.lfirsts = attempts /\ gh.lnotfound = attempts

\* C21: create_share with wait=True and timeout=None that has entered its
\* wait loop returns the share as 'available' in the end, when the back
\* end makes the share available and leaves it so, the page requests are
\* answered and a cache entry expires: a cached listing without the new
\* share does not hold the loop for ever.
C21_CreateReturns ==
    (op.name = "create_share" /\ pc \in {"create_iter", "create_poll"})
        ~> (Finished("create_share") /\ out.kind = "return"
              /\ out.share.status = "available")

\* C21 witness: a poll of the waiting create_share is served from the
\* cache with a listing of steady shares that lacks the new share, which
\* the service shows as 'available'.
C21_Witness ==
    /\ op.name = "create_share" /\ pc = "create_poll"
    /\ lpc = "ret" /\ ~gh.lfetched
    /\ cache.hit /\ lst.ret = cache.value
    /\ get_share(lst.ret, loc.share_id) = NoShare
    /\ server[loc.share_id] = "available"

\* C22: delete_share with wait=True and timeout=None that has entered its
\* wait loop returns True in the end, when the back end removes the share
\* and it stays removed, the page requests are answered and a cache entry
\* expires: a cached listing that still shows the share as 'available' or
\* 'error' does not hold the loop for ever.
C22_DeleteReturns ==
    (op.name = "delete_share" /\ pc \in {"delete_iter", "delete_poll"})
        ~> (Finished("delete_share") /\ out.kind = "return"
              /\ out.flag = "True")

\* C22 witness: a poll of the waiting delete_share is served from the
\* cache with a listing that shows the share as 'available', after the
\* share is gone from the service.
C22_Witness ==
    /\ op.name = "delete_share" /\ pc = "delete_poll"
    /\ lpc = "ret" /\ ~gh.lfetched
    /\ cache.hit /\ lst.ret = cache.value
    /\ get_share(lst.ret, loc.share_id).status \in {"available", "error"}
    /\ server[loc.share_id] = Absent


=============================================================================
